---- MODULE Spec2Model ----
(***************************************************************************)
(* StraightUp desktop dashboard (src/frontend/tkinter_app.py).             *)
(*                                                                         *)
(* The session timer and break scheduler of ModernTkinterApp, as a state   *)
(* machine: one action per handler (start_session, pause_session,          *)
(* stop_session, the update_timer callback, the dismissal of a message     *)
(* box) plus the passing of wall-clock time; and the health summary of     *)
(* HealthDataManager, computed from the entries of the log.                *)
(*                                                                         *)
(* Time.  datetime.now() is the variable now, counted in clock units.  One *)
(* unit is the period of the tick (root.after(1000, ...)); a minute is     *)
(* UnitsPerMinute units (60 in the program, scaled down here), so          *)
(* timedelta(minutes=m) is Minutes(m) and "elapsed // 60" is               *)
(* "elapsed \div UnitsPerMinute".  A handler reads the clock once: the     *)
(* microseconds between two datetime.now() calls of one handler are not    *)
(* modelled.                                                               *)
(*                                                                         *)
(* Event loop.  Handlers run to completion on the Tk thread, except where  *)
(* they open a message box: messagebox.showinfo / showwarning block the    *)
(* calling handler in a nested event loop until the box is dismissed.      *)
(* Timer callbacks still fire in that nested loop; the box holds the grab, *)
(* so the session buttons do not.  The boxes are dismissed innermost       *)
(* first (they are frames of one call stack).                              *)
(*                                                                         *)
(* Numbers of the summary.  A score (focus, posture, noise) is counted in  *)
(* thousandths, 0.7 is 700; a mean is kept exact, as the pair of the sum   *)
(* and the number of samples, and is divided only where the program rounds *)
(* or truncates it.  The rounding error of the floats is not modelled.     *)
(*                                                                         *)
(* Threads.  refresh_data starts one worker thread per call.  A worker     *)
(* shares self.current_data with the Tk thread, and the interpreter may    *)
(* switch threads between any two reads or writes of it: the call of       *)
(* get_health_summary, the store of its result and root.after(0, ...) are  *)
(* steps of the worker, and every read of self.current_data is a step of   *)
(* update_ui.  Callbacks of the Tk thread do not interleave one another.   *)
(*                                                                         *)
(* Refresh timer.  The root.after(5000, self.auto_refresh_data) callbacks  *)
(* are counted, not timed: a pending one may fire between any two steps of *)
(* the refresh side.                                                       *)
(***************************************************************************)
EXTENDS Integers, Sequences, FiniteSets, TLC

\* ------------------------------------------------------------------ bounds
MaxTime == 6            \* the clock stops advancing here
UnitsPerMinute == 2     \* clock units in a minute (the scale of the model)
MaxBreakMinutes == 2    \* start_session is called with minutes in 1..MaxBreakMinutes
MaxTimers == 3          \* pending update_timer callbacks a handler may add to
MaxLate == 1            \* units a due callback may wait before it is run
DemoMinutes == 12       \* length in minutes of the runs of SpecSteady
MaxSamples == 20        \* entries a fetch answers with at most (limit, 100 in the program)
MaxShortSamples == 9    \* the longest of the windows over two entries in any order
MaxRecSamples == 4      \* the longest of the windows that vary the recommendations
MaxWorkers == 2         \* refreshes in flight: worker threads and update_ui callbacks not yet run

\* --------------------------------------------------------------- constants
None == -1              \* Optional[datetime] = None
TickPeriod == 1         \* root.after(1000, self.update_timer): one clock unit
DefaultBreakMinutes == 5

\* values=["1", "5", "10", "15", "30"] of both comboboxes
SupportedMinutes == {1, 5, 10, 15, 30}

\* the integers a caller passes to start_session
BreakMinuteInputs == 1..MaxBreakMinutes

VARIABLES
    now,                 \* datetime.now()
    session_running,     \* self.session_running
    session_paused,      \* self.session_paused
    session_start_time,  \* self.session_start_time (None before the first start)
    session_elapsed,     \* self.session_elapsed
    break_freq_minutes,  \* self.break_freq_minutes
    break_len_minutes,   \* self.break_len_minutes
    in_break,            \* self.in_break
    next_break_time,     \* self.next_break_time
    break_end_time,      \* self.break_end_time
    timer_label,         \* text of self.timer_label, <<minutes, seconds>>
    today_badge,         \* minutes shown by self.today_badge
    timers,              \* due times of the pending root.after callbacks, sorted
    modal,               \* the open message boxes, outermost first, each with the
                         \* local "minutes" of the handler it blocks
    \* history variables (not program state)
    run_time,            \* clock units since the last start spent running and not paused
    active_since,        \* the same, since the last start, break entry or break exit
    breaks_done,         \* "Break complete" boxes raised since the last start
    steady,              \* since the last start: never paused, a tick pending and on time at every clock advance
    ignored              \* the last handler call returned early as an invalid transition

progVars == <<session_running, session_paused, session_start_time, session_elapsed,
              break_freq_minutes, break_len_minutes, in_break, next_break_time,
              break_end_time, timer_label, today_badge, timers, modal>>

sessionVars == <<session_running, session_paused, session_start_time, session_elapsed,
                 break_freq_minutes, break_len_minutes, in_break, next_break_time,
                 break_end_time>>

histVars == <<run_time, active_since, breaks_done, steady, ignored>>

VARIABLES
    cloud,               \* the log service: "none" (self.cloud_logging_client is None),
                         \* "up" (list_entries answers) or "down" (list_entries raises)
    entries,             \* the entries list_entries answers with, newest first
    data,                \* data of the last get_health_summary call
    summary              \* what the last get_health_summary call returned

summaryVars == <<cloud, entries, data, summary>>

VARIABLES
    current_data,        \* self.current_data
    workers,             \* the live threads of refresh_data, in the order they were started
    pending_ui,          \* update_ui callbacks root.after(0, ...) has queued
    ui,                  \* where update_ui stands: "idle", or at its next read of self.current_data
    ui_data,             \* data of update_ui, as last rendered
    status_label,        \* text of self.status_label
    shown,               \* the metric labels and the chips of the live summary
    \* history variables (not program state)
    ui_seen,             \* the values the running (or last) update_ui has read from self.current_data
    returned,            \* the summaries get_health_summary has returned to a worker
    latest_running,      \* the thread of the last refresh_data call has not ended
    latest_result        \* what get_health_summary has returned to that thread (None before)

refreshVars == <<current_data, workers, pending_ui, ui, ui_data, status_label, shown,
                 ui_seen, returned, latest_running, latest_result>>

VARIABLES
    dashboard,           \* enter_dashboard has run: the dashboard is built
    auto_refresh,        \* self.auto_refresh
    refresh_timer        \* pending root.after(5000, self.auto_refresh_data) callbacks

timerVars == <<dashboard, auto_refresh, refresh_timer>>

dataVars == <<summaryVars, refreshVars, timerVars>>

\* the session timer's side of the program
clockVars == <<now, progVars, histVars>>

vars == <<now, progVars, histVars, dataVars>>

\* ----------------------------------------------------------------- helpers

\* timedelta(minutes=m), in clock units
Minutes(m) == m * UnitsPerMinute

\* f"{minutes:02d}:{seconds:02d}" with minutes = int(e // 60), seconds = int(e % 60)
FormatTimer(e) == <<e \div UnitsPerMinute, e % UnitsPerMinute>>

\* root.after(delay, callback): the callback joins the pending ones, kept by due time
RECURSIVE InsertTimer(_, _)
InsertTimer(ts, due) ==
    IF ts = <<>> THEN <<due>>
    ELSE IF due < Head(ts) THEN <<due>> \o ts
    ELSE <<Head(ts)>> \o InsertTimer(Tail(ts), due)

\* the pending callbacks without the i-th, which the event loop has taken to run
RemoveTimer(ts, i) == SubSeq(ts, 1, i - 1) \o SubSeq(ts, i + 1, Len(ts))

\* mutant of CurrentElapsed: the running stretch is added also while paused
CurrentElapsedAlways(running, paused, elapsed, start) == elapsed + (now - start)

\* current_elapsed of update_timer
CurrentElapsed(running, paused, elapsed, start) ==
    IF running /\ ~paused THEN elapsed + (now - start) ELSE elapsed

\* mutant of BreakDue: the break is due whatever the time
BreakDueAtOnce(inb, nbt) == (~inb) /\ nbt # None

\* the first if of the break scheduler: time to start a break
BreakDue(inb, nbt) == (~inb) /\ nbt # None /\ now >= nbt

\* the second if of the break scheduler: the break has ended
BreakOver(inb, bet) == inb /\ bet # None /\ now >= bet

\* mutant of NextBreakAfter: the next break is never scheduled
NextBreakNever(freq) == None

\* the time of the next break, set by start_session and when a break ends
NextBreakAfter(freq) == now + Minutes(freq)

\* mutant of BreakEndAfter: the break ends as it starts
BreakEndAtOnce(len) == now

\* mutant of BreakEndAfter: the length taken as clock units, not minutes
BreakEndInUnits(len) == now + len

\* the end of a break that starts now
BreakEndAfter(len) == now + Minutes(len)

\* mutant of Banked: "=" for "+=", the time banked before is lost
BankedOverwrites(elapsed, start) == now - start

\* session_elapsed after "self.session_elapsed += (now - start).total_seconds()"
Banked(elapsed, start) == elapsed + (now - start)

\* mutant of NoSession: the early return is missing
NoSessionNever == FALSE

\* "if not self.session_running: return" of pause_session and stop_session
NoSession == ~session_running

\* mutant of ClearBreakSchedule: the flag is left as it was
ClearBreakTimesOnly ==
    /\ in_break' = in_break
    /\ next_break_time' = None
    /\ break_end_time' = None

\* "Reset break scheduling state" of stop_session
ClearBreakSchedule ==
    /\ in_break' = FALSE
    /\ next_break_time' = None
    /\ break_end_time' = None

\* a handler blocked in a message box: the box and the handler's local minutes
Box(kind, minutes) == [box |-> kind, minutes |-> minutes]

\* ---------------------------------------------------------- health summary

\* range(20) of _generate_sample_data
SampleDataLen == 20

\* "[:5]" of top_recommendations
TopCount == 5

\* "data[:5]" of _generate_live_data_from_recent
LiveCount == 5

\* self.current_data = None, and the summary before any call
NoneData == [status |-> "None"]

\* one data point of get_recent_health_data; the scores in thousandths, the
\* phone usage in seconds
Sample(f, p, ph, nz, recs) ==
    [focus_score |-> f, posture_score |-> p, phone_usage_seconds |-> ph,
     noise_level |-> nz, recommendations |-> recs]

\* sum(...) of a list of numbers
RECURSIVE SumSeq(_)
SumSeq(xs) == IF xs = <<>> THEN 0 ELSE Head(xs) + SumSeq(Tail(xs))

\* sum(d[field] for d in ds)
Total(ds, field) == SumSeq([i \in 1..Len(ds) |-> ds[i][field]])

\* sum(d[field] for d in ds) / len(ds), kept exact
Mean(ds, field) == [num |-> Total(ds, field), den |-> Len(ds)]

\* a > b, a < b of two means
Greater(a, b) == a.num * b.den > b.num * a.den
Less(a, b) == a.num * b.den < b.num * a.den

\* mean > t and mean < t for a threshold t written in thousandths (0.7 is 700)
Above(mean, t) == mean.num > t * mean.den
Below(mean, t) == mean.num < t * mean.den

\* round(num / den, k), in units of 10^-k: to the nearest, a tie to the even
RoundHalfEven(num, den) ==
    LET q == num \div den
        r == num % den
    IN  IF 2 * r < den THEN q
        ELSE IF 2 * r > den THEN q + 1
        ELSE IF q % 2 = 0 THEN q ELSE q + 1

\* int(num / den): towards zero
IntTrunc(num, den) ==
    IF num >= 0 THEN num \div den ELSE 0 - ((0 - num) \div den)

\* seq[:k]
Take(seq, k) == SubSeq(seq, 1, IF Len(seq) < k THEN Len(seq) ELSE k)

\* seq[k:]
Drop(seq, k) == SubSeq(seq, k + 1, Len(seq))

\* mutant of RecentData: the newest third of a short window too
RecentDataAlwaysThird(ds) == Take(ds, Len(ds) \div 3)

\* mutant of RecentData: the newer half for the newest third
RecentDataHalf(ds) == IF Len(ds) > 6 THEN Take(ds, Len(ds) \div 2) ELSE ds

\* recent_data = data[:total_points//3] if total_points > 6 else data
RecentData(ds) == IF Len(ds) > 6 THEN Take(ds, Len(ds) \div 3) ELSE ds

\* mutant of OlderData: the older two thirds of a short window too
OlderDataAlwaysRest(ds) == Drop(ds, Len(ds) \div 3)

\* older_data = data[total_points//3:] if total_points > 6 else data
OlderData(ds) == IF Len(ds) > 6 THEN Drop(ds, Len(ds) \div 3) ELSE ds

\* sum(...) / len(sub) if sub else avg_focus
SubsetFocus(sub, avg_focus) == IF sub # <<>> THEN Mean(sub, "focus_score") ELSE avg_focus

\* mutant of FocusTrend: the means are compared as they are reported, to three
\* decimals
FocusTrendOfReported(recent_focus, older_focus) ==
    LET recent == RoundHalfEven(recent_focus.num, recent_focus.den)
        older == RoundHalfEven(older_focus.num, older_focus.den)
    IN  IF recent > older THEN "improving"
        ELSE IF recent < older THEN "declining"
        ELSE "stable"

\* focus_trend
FocusTrend(recent_focus, older_focus) ==
    IF Greater(recent_focus, older_focus) THEN "improving"
    ELSE IF Less(recent_focus, older_focus) THEN "declining"
    ELSE "stable"

\* all_recommendations: every entry's recommendations, in the order of the entries
RECURSIVE AllRecommendations(_)
AllRecommendations(ds) ==
    IF ds = <<>> THEN <<>>
    ELSE Head(ds).recommendations \o AllRecommendations(Tail(ds))

\* rec_counts[rec] = rec_counts.get(rec, 0) + 1 on a dict, which keeps its keys
\* in the order they were first set
CountOne(counts, rec) ==
    IF \E i \in 1..Len(counts) : counts[i].text = rec
    THEN [i \in 1..Len(counts) |->
            IF counts[i].text = rec
            THEN [text |-> rec, count |-> counts[i].count + 1] ELSE counts[i]]
    ELSE Append(counts, [text |-> rec, count |-> 1])

\* rec_counts.items() after the loop over all_recommendations
RECURSIVE RecCounts(_, _)
RecCounts(counts, recs) ==
    IF recs = <<>> THEN counts ELSE RecCounts(CountOne(counts, Head(recs)), Tail(recs))

\* mutant of PlaceByCount: a tie puts the later item first
PlaceByCountTieFirst(sorted, item) ==
    LET before == {i \in 1..Len(sorted) : sorted[i].count > item.count}
    IN  SubSeq(sorted, 1, Cardinality(before)) \o <<item>>
            \o SubSeq(sorted, Cardinality(before) + 1, Len(sorted))

\* one step of the stable sort by count, reversed: the item goes after the
\* items of the same or a higher count
PlaceByCount(sorted, item) ==
    LET before == {i \in 1..Len(sorted) : sorted[i].count >= item.count}
    IN  SubSeq(sorted, 1, Cardinality(before)) \o <<item>>
            \o SubSeq(sorted, Cardinality(before) + 1, Len(sorted))

\* sorted(items, key=lambda x: x[1], reverse=True)
RECURSIVE SortedByCount(_, _)
SortedByCount(sorted, items) ==
    IF items = <<>> THEN sorted
    ELSE SortedByCount(PlaceByCount(sorted, Head(items)), Tail(items))

\* top_recommendations
TopRecommendations(ds) ==
    Take(SortedByCount(<<>>, RecCounts(<<>>, AllRecommendations(ds))), TopCount)

\* mutant of PhonePenalty: the penalty grows without the cap of 20
PhonePenaltyUncapped(phone_time) == [num |-> 20 * phone_time, den |-> 30000]

\* phone_penalty = min(phone_time / 300 * 20, 20), phone_time in hundredths of a second
PhonePenalty(phone_time) ==
    [num |-> IF 20 * phone_time < 20 * 30000 THEN 20 * phone_time ELSE 20 * 30000,
     den |-> 30000]

\* overall of _calculate_health_grade as the fraction num / den; focus,
\* posture and noise are means over the same samples
Overall(focus, posture, phone_time, noise) ==
    [num |-> 150 * focus.num + 150 * posture.num
               - (PhonePenalty(phone_time).num \div 20) * focus.den - 45 * noise.num,
     den |-> 3000 * focus.den]

\* overall >= g
AtLeast(overall, g) == overall.num >= g * overall.den

\* mutant of CalculateHealthGrade: the bands exclusive on the lower end
CalculateHealthGradeStrict(focus, posture, phone_time, noise) ==
    LET overall == Overall(focus, posture, phone_time, noise)
    IN  IF overall.num > 85 * overall.den THEN "A"
        ELSE IF overall.num > 75 * overall.den THEN "B"
        ELSE IF overall.num > 65 * overall.den THEN "C"
        ELSE IF overall.num > 55 * overall.den THEN "D"
        ELSE "F"

\* _calculate_health_grade
CalculateHealthGrade(focus, posture, phone_time, noise) ==
    LET overall == Overall(focus, posture, phone_time, noise)
    IN  IF AtLeast(overall, 85) THEN "A"
        ELSE IF AtLeast(overall, 75) THEN "B"
        ELSE IF AtLeast(overall, 65) THEN "C"
        ELSE IF AtLeast(overall, 55) THEN "D"
        ELSE "F"

\* mutant of ScoreStatus: the thresholds inclusive
ScoreStatusInclusive(avg) ==
    IF avg.num >= 700 * avg.den THEN "good"
    ELSE IF avg.num >= 400 * avg.den THEN "warn" ELSE "bad"

\* 'good' if avg > 0.7 else 'warn' if avg > 0.4 else 'bad'
ScoreStatus(avg) ==
    IF Above(avg, 700) THEN "good" ELSE IF Above(avg, 400) THEN "warn" ELSE "bad"

\* 'good' if avg_noise < 0.3 else 'warn' if avg_noise < 0.6 else 'bad'
NoiseStatus(avg) ==
    IF Below(avg, 300) THEN "good" ELSE IF Below(avg, 600) THEN "warn" ELSE "bad"

\* 'good' if total_phone < 300 else 'warn' if total_phone < 900 else 'bad'
PhoneStatus(total_phone) ==
    IF total_phone < 30000 THEN "good" ELSE IF total_phone < 90000 THEN "warn" ELSE "bad"

\* f"{int(avg * 100)}%", as the number of percent
Percent(avg) == IntTrunc(avg.num, 10 * avg.den)

\* mutant of RecentEntries: the whole window
RecentEntriesAll(ds) == ds

\* recent_entries = data[:5]
RecentEntries(ds) == Take(ds, LiveCount)

\* _generate_live_data_from_recent; a value is the number its text shows (per
\* cent, or tenths of a minute)
GenerateLiveDataFromRecent(ds) ==
    IF ds = <<>>
    THEN [postureScore |-> [value |-> 75, status |-> "good"],
          phoneUsage   |-> [value |-> 23, status |-> "ok"],
          noiseLevel   |-> [value |-> 28, status |-> "good"],
          focusScore   |-> [value |-> 64, status |-> "warn"]]
    ELSE LET recent_entries == RecentEntries(ds)
             avg_posture == Mean(recent_entries, "posture_score")
             avg_focus   == Mean(recent_entries, "focus_score")
             avg_noise   == Mean(recent_entries, "noise_level")
             total_phone == Total(recent_entries, "phone_usage_seconds")
         IN  [postureScore |-> [value |-> Percent(avg_posture), status |-> ScoreStatus(avg_posture)],
              focusScore   |-> [value |-> Percent(avg_focus), status |-> ScoreStatus(avg_focus)],
              noiseLevel   |-> [value |-> Percent(avg_noise), status |-> NoiseStatus(avg_noise)],
              phoneUsage   |-> [value |-> RoundHalfEven(total_phone, 600),
                                status |-> PhoneStatus(total_phone)]]

\* mutant of NoDataSummary: a grade in the summary of no data
NoDataWithGrade ==
    [status |-> "no_data", message |-> "No health data available", health_grade |-> "F"]

\* the summary get_health_summary returns for no data
NoDataSummary == [status |-> "no_data", message |-> "No health data available"]

\* mutant of Rounded: the mean cut to three decimals
RoundedDown(mean) == mean.num \div mean.den

\* round(mean, 3), in thousandths
Rounded(mean) == RoundHalfEven(mean.num, mean.den)

\* get_health_summary from "if not data" on, data being ds.  The averages and
\* the focus and posture metrics are in thousandths, the phone seconds and
\* minutes in tenths; 'time_range_hours' (the argument) and 'last_updated'
\* (a timestamp) are left out.
HealthSummary(ds) ==
    IF ds = <<>> THEN NoDataSummary
    ELSE LET total_points == Len(ds)
             avg_focus == Mean(ds, "focus_score")
             avg_posture == Mean(ds, "posture_score")
             total_phone_time == Total(ds, "phone_usage_seconds")
             avg_noise == Mean(ds, "noise_level")
             recent_focus == SubsetFocus(RecentData(ds), avg_focus)
             older_focus == SubsetFocus(OlderData(ds), avg_focus)
         IN  [status |-> "success",
              data_points |-> total_points,
              averages |-> [focus_score |-> Rounded(avg_focus),
                            posture_score |-> Rounded(avg_posture),
                            noise_level |-> Rounded(avg_noise)],
              totals |-> [phone_usage_seconds |-> RoundHalfEven(total_phone_time, 10),
                          phone_usage_minutes |-> RoundHalfEven(total_phone_time, 600)],
              trends |-> [focus_trend |-> FocusTrend(recent_focus, older_focus),
                          recent_focus |-> Rounded(recent_focus),
                          older_focus |-> Rounded(older_focus)],
              top_recommendations |-> TopRecommendations(ds),
              health_grade |-> CalculateHealthGrade(avg_focus, avg_posture,
                                                    total_phone_time, avg_noise),
              live_data |-> GenerateLiveDataFromRecent(ds),
              metrics |-> [distraction_level |-> RoundHalfEven(1000 * total_points - avg_focus.num,
                                                               total_points),
                           focus_score |-> Rounded(avg_focus),
                           posture_score |-> Rounded(avg_posture)]]

\* the lists random.choice of _generate_sample_data picks from
SampleRecommendations ==
    { <<"Focus on alignment", "Good posture">>,
      <<"Neck flexion critical - Raise monitor", "Minor shoulder imbalance">>,
      <<"Brief phone check", "Excellent posture!">>,
      <<>> }

\* data points _generate_sample_data can make: focus in 0.4 .. 0.9, posture in
\* 0.3 .. 0.9, phone in 0 .. 45 s, noise in 0.1 .. 0.6
GeneratedSamples ==
    { Sample(400, 300, 0, 100, <<>>),
      Sample(900, 900, 4500, 600, <<"Brief phone check", "Excellent posture!">>),
      Sample(650, 720, 1230, 280, <<"Focus on alignment", "Good posture">>) }

\* the windows in which the first k samples are a and the others b
StepWindows(n, samples) ==
    { [i \in 1..n |-> IF i <= k THEN a ELSE b] : k \in 0..n, a \in samples, b \in samples }

\* _generate_sample_data: twenty random data points (here: a first run of one
\* data point of GeneratedSamples, then a run of another)
GenerateSampleData == StepWindows(SampleDataLen, GeneratedSamples)

\* get_recent_health_data: the data get_health_summary may get
RecentHealthData == IF cloud = "up" THEN {entries} ELSE GenerateSampleData

\* ------------------------------------------------- the entries of the log

\* single entries on and around every threshold of the grade and the gauges
GridSamples ==
    { Sample(f, p, ph, nz, <<>>) :
        f \in {400, 700, 1000}, p \in {400, 700, 1000},
        ph \in {0, 100, 30000, 90000}, nz \in {0, 300, 600} }

\* entries of longer windows: in range, out of range, and with fractions
LongSamples ==
    { Sample(700, 700, 0, 300, <<"Good posture">>),
      Sample(500, 400, 29900, 0, <<>>),
      Sample(1000, 1000, 25, 0, <<"Good posture", "Brief phone check">>),
      Sample(1200, 0 - 100, 0 - 3000, 1500, <<>>),
      Sample(701, 850, 100, 299, <<>>) }

\* recommendation lists of the entries that vary the recommendations
RecLists ==
    { <<>>,
      <<"Focus on alignment", "Good posture">>,
      <<"Neck flexion critical - Raise monitor", "Minor shoulder imbalance">>,
      <<"Brief phone check", "Excellent posture!">>,
      <<"Excellent posture!">>,
      <<"Good posture", "Focus on alignment", "Good posture">> }

RecSamples == { Sample(700, 700, 0, 300, recs) : recs \in RecLists }

\* two entries that differ in every score
PairSamples == { Sample(700, 700, 0, 300, <<"Good posture">>), Sample(500, 400, 29900, 0, <<>>) }

\* the windows list_entries answers with in the runs of SpecSummary
WindowInputs ==
    UNION { StepWindows(n, LongSamples) : n \in 0..MaxSamples }
    \cup UNION { [1..n -> PairSamples] : n \in 0..MaxShortSamples }
    \cup { <<s>> : s \in GridSamples }
    \cup UNION { [1..n -> RecSamples] : n \in 0..MaxRecSamples }

\* "max_chips = 3" of update_live_summary
MaxChips == 3

\* the metric labels and the live summary as setup_ui builds them
NothingShown ==
    [distraction |-> None, focus |-> None, posture |-> None,
     chips |-> <<[name |-> "Loading live summary", value |-> None, status |-> "muted"]>>]

\* the refresh side after __init__ and setup_ui
RefreshInit ==
    /\ current_data = NoneData
    /\ workers = <<>>
    /\ pending_ui = 0
    /\ ui = "idle"
    /\ ui_data = NoneData
    /\ status_label = "Connecting"
    /\ shown = NothingShown
    /\ ui_seen = <<>>
    /\ returned = {}
    /\ latest_running = FALSE
    /\ latest_result = NoneData
    /\ dashboard = FALSE
    /\ auto_refresh = TRUE
    /\ refresh_timer = 0

\* the data side after __init__: no summary fetched
DataInit ==
    /\ cloud = "none"
    /\ entries = <<>>
    /\ data = <<>>
    /\ summary = NoneData
    /\ RefreshInit

\* ------------------------------------------------------------ update_timer
\* mutant of Reschedule: the callback schedules itself whatever the session
RescheduleAlways(running) == TRUE

\* "if self.session_running:" before root.after(1000, self.update_timer)
Reschedule(running) == running

\* update_timer, called with the fields as its caller has left them and the
\* callbacks ts still pending.  When a break has just ended it blocks in
\* messagebox.showinfo before it reschedules itself: the box is pushed on
\* modal and the rest of the handler runs when the box is dismissed.
UpdateTimer(running, paused, elapsed, start, freq, len, inb, nbt, bet, ts) ==
    LET active == running /\ ~paused
        enter  == active /\ BreakDue(inb, nbt)
        inb1   == IF enter THEN TRUE ELSE inb
        bet1   == IF enter THEN BreakEndAfter(len) ELSE bet
        over   == active /\ BreakOver(inb1, bet1)
    IN  /\ timer_label' = FormatTimer(CurrentElapsed(running, paused, elapsed, start))
        /\ in_break' = IF over THEN FALSE ELSE inb1
        /\ next_break_time' = IF over THEN NextBreakAfter(freq) ELSE nbt
        /\ break_end_time' = IF over THEN None ELSE bet1
        /\ modal' = IF over THEN Append(modal, Box("break_complete", 0)) ELSE modal
        /\ timers' = IF (~over) /\ Reschedule(running)
                     THEN InsertTimer(ts, now + TickPeriod) ELSE ts

\* the history variables after a handler that has run update_timer
HistAfterTimer ==
    /\ active_since' = IF in_break' # in_break THEN 0 ELSE active_since
    /\ breaks_done' = IF Len(modal') > Len(modal) THEN breaks_done + 1 ELSE breaks_done

\* ---------------------------------------------------------------- handlers

\* the session timer after __init__
SessionInit ==
    /\ now = 0
    /\ session_running = FALSE
    /\ session_paused = FALSE
    /\ session_start_time = None
    /\ session_elapsed = 0
    /\ break_freq_minutes = DefaultBreakMinutes
    /\ break_len_minutes = DefaultBreakMinutes
    /\ in_break = FALSE
    /\ next_break_time = None
    /\ break_end_time = None
    /\ timer_label = <<0, 0>>
    /\ today_badge = 0
    /\ timers = <<>>
    /\ modal = <<>>
    /\ run_time = 0
    /\ active_since = 0
    /\ breaks_done = 0
    /\ steady = FALSE
    /\ ignored = FALSE

\* the program after __init__
Init == SessionInit /\ DataInit

\* mutant of StartElapsed: the elapsed time of the session before is kept
StartElapsedCarried == session_elapsed

\* "self.session_elapsed = 0" of start_session
StartElapsed == 0

\* start_session(setup_window, f, l): the "Start session" button of the setup
\* window.  No guard on the state of the session.
StartSession(f, l) ==
    /\ modal = <<>>
    /\ Len(timers) < MaxTimers
    /\ break_freq_minutes' = f
    /\ break_len_minutes' = l
    /\ session_running' = TRUE
    /\ session_paused' = FALSE
    /\ session_start_time' = now
    /\ session_elapsed' = StartElapsed
    /\ UpdateTimer(TRUE, FALSE, StartElapsed, now, f, l, FALSE, NextBreakAfter(f), None, timers)
    /\ run_time' = 0
    /\ active_since' = 0
    /\ breaks_done' = 0
    /\ steady' = TRUE
    /\ ignored' = FALSE
    /\ UNCHANGED <<now, today_badge, dataVars>>

\* pause_session: the Pause / Resume button
PauseSession ==
    /\ modal = <<>>
    /\ IF NoSession
       THEN /\ ignored' = TRUE
            /\ UNCHANGED <<now, progVars, run_time, active_since, breaks_done, steady>>
       ELSE /\ Len(timers) < MaxTimers
            /\ session_paused' = ~session_paused
            /\ session_elapsed' = IF session_paused' THEN Banked(session_elapsed, session_start_time)
                                  ELSE session_elapsed
            /\ session_start_time' = IF session_paused' THEN session_start_time ELSE now
            /\ UpdateTimer(session_running, session_paused', session_elapsed', session_start_time',
                           break_freq_minutes, break_len_minutes,
                           in_break, next_break_time, break_end_time, timers)
            /\ HistAfterTimer
            /\ steady' = FALSE
            /\ ignored' = FALSE
            /\ UNCHANGED <<now, session_running, break_freq_minutes, break_len_minutes,
                           today_badge, run_time>>
    /\ UNCHANGED dataVars

\* mutant of FinalElapsed: the running stretch is folded in even when paused
FinalElapsedFoldsAlways == Banked(session_elapsed, session_start_time)

\* session_elapsed as stop_session finalizes it
FinalElapsed ==
    IF ~session_paused THEN Banked(session_elapsed, session_start_time) ELSE session_elapsed

\* mutant of Saved: a session of less than a minute is saved too
SavedAlways(minutes) == minutes >= 0

\* "if minutes > 0" of stop_session
Saved(minutes) == minutes > 0

\* stop_session: the Stop & Save button, up to the message box that reports
\* the session saved or too short.  The badge is updated after the box of a
\* saved session is dismissed.
StopSession ==
    /\ modal = <<>>
    /\ IF NoSession
       THEN /\ ignored' = TRUE
            /\ UNCHANGED <<now, progVars, run_time, active_since, breaks_done, steady>>
       ELSE /\ session_elapsed' = FinalElapsed
            /\ session_running' = FALSE
            /\ session_paused' = FALSE
            /\ ClearBreakSchedule
            /\ timer_label' = <<0, 0>>
            /\ LET minutes == session_elapsed' \div UnitsPerMinute
               IN  modal' = IF Saved(minutes)
                            THEN Append(modal, Box("session_complete", minutes))
                            ELSE Append(modal, Box("session_too_short", minutes))
            /\ active_since' = 0
            /\ steady' = FALSE
            /\ ignored' = FALSE
            /\ UNCHANGED <<now, session_start_time, break_freq_minutes, break_len_minutes,
                           today_badge, timers, run_time, breaks_done>>
    /\ UNCHANGED dataVars

\* the event loop runs the i-th pending update_timer callback, which is due
Tick(i) ==
    /\ timers[i] <= now
    /\ UpdateTimer(session_running, session_paused, session_elapsed, session_start_time,
                   break_freq_minutes, break_len_minutes,
                   in_break, next_break_time, break_end_time, RemoveTimer(timers, i))
    /\ HistAfterTimer
    /\ ignored' = FALSE
    /\ UNCHANGED <<now, session_running, session_paused, session_start_time, session_elapsed,
                   break_freq_minutes, break_len_minutes, today_badge, run_time, steady,
                   dataVars>>

\* the innermost message box is dismissed and the handler it blocked goes on:
\* update_timer with "if self.session_running: self.root.after(1000, ...)",
\* stop_session of a saved session with the update of the badge, stop_session
\* of a session too short with nothing
Dismiss ==
    /\ modal # <<>>
    /\ LET top == modal[Len(modal)]
       IN  /\ timers' = IF top.box = "break_complete" /\ Reschedule(session_running)
                        THEN InsertTimer(timers, now + TickPeriod)
                        ELSE timers
           /\ today_badge' = IF top.box = "session_complete" THEN top.minutes
                             ELSE today_badge
    /\ modal' = SubSeq(modal, 1, Len(modal) - 1)
    /\ ignored' = FALSE
    /\ UNCHANGED <<now, sessionVars, timer_label,
                   run_time, active_since, breaks_done, steady, dataVars>>

\* a clock unit passes; a due callback waits at most MaxLate units
Advance ==
    /\ now < MaxTime
    /\ \A i \in 1..Len(timers) : now - timers[i] < MaxLate
    /\ now' = now + 1
    /\ run_time' = IF session_running /\ ~session_paused THEN run_time + 1 ELSE run_time
    /\ active_since' = IF session_running /\ ~session_paused THEN active_since + 1
                       ELSE active_since
    /\ steady' = (steady /\ timers # <<>> /\ \A i \in 1..Len(timers) : timers[i] > now)
    /\ ignored' = FALSE
    /\ UNCHANGED <<progVars, breaks_done, dataVars>>

Next ==
    \/ \E f \in BreakMinuteInputs, l \in BreakMinuteInputs : StartSession(f, l)
    \/ PauseSession
    \/ StopSession
    \/ \E i \in 1..Len(timers) : Tick(i)
    \/ Dismiss
    \/ Advance

Spec == Init /\ [][Next]_vars

\* ------------------------------------------------- the steady sessions
\* Sessions started from Idle with the default or the shortest setting, never
\* paused, ticked on time, every message box dismissed at once, stopped at
\* any time: the runs of "a session run for 12 simulated minutes with no
\* pauses".

\* the settings of the steady sessions, both in the comboboxes' list
SteadyMinutes == {1, DefaultBreakMinutes}

StartFromIdle(f, l) == (~session_running) /\ StartSession(f, l)

\* a clock unit passes with a tick pending, none overdue and no box open
AdvanceSteady ==
    /\ now < Minutes(DemoMinutes)
    /\ modal = <<>>
    /\ timers # <<>>
    /\ \A i \in 1..Len(timers) : timers[i] > now
    /\ now' = now + 1
    /\ run_time' = IF session_running /\ ~session_paused THEN run_time + 1 ELSE run_time
    /\ active_since' = IF session_running /\ ~session_paused THEN active_since + 1
                       ELSE active_since
    /\ ignored' = FALSE
    /\ UNCHANGED <<progVars, breaks_done, steady, dataVars>>

NextSteady ==
    \/ \E f \in SteadyMinutes, l \in SteadyMinutes : StartFromIdle(f, l)
    \/ StopSession
    \/ \E i \in 1..Len(timers) : Tick(i)
    \/ Dismiss
    \/ AdvanceSteady

SpecSteady == Init /\ [][NextSteady]_vars

\* ------------------------------------------------------ get_health_summary

\* the program with the log service in any state and any window in the log
InitSummary ==
    /\ SessionInit
    /\ cloud \in {"none", "up", "down"}
    /\ entries \in (IF cloud = "up" THEN WindowInputs ELSE {<<>>})
    /\ data = <<>>
    /\ summary = NoneData
    /\ RefreshInit

\* a call of data_manager.get_health_summary()
GetHealthSummary ==
    /\ \E ds \in RecentHealthData :
          /\ data' = ds
          /\ summary' = HealthSummary(ds)
    /\ UNCHANGED <<cloud, entries, refreshVars, timerVars, clockVars>>

NextSummary == GetHealthSummary

SpecSummary == InitSummary /\ [][NextSummary]_vars

\* ------------------------------------------------------------ refresh_data

\* the windows of the log in the runs of SpecRefresh
RefreshWindows ==
    { <<>>,
      <<Sample(700, 700, 0, 300, <<"Good posture">>)>>,
      <<Sample(500, 400, 29900, 0, <<>>), Sample(700, 700, 0, 300, <<"Good posture">>)>> }

\* the program before the dashboard is entered, the log service up
InitRefresh ==
    /\ SessionInit
    /\ cloud = "up"
    /\ entries \in RefreshWindows
    /\ data = <<>>
    /\ summary = NoneData
    /\ RefreshInit

\* d.get(key, default)
Get(d, key, default) == IF key \in DOMAIN d THEN d[key] ELSE default

\* a thread of refresh_data: where it stands in fetch_data and the value of
\* its call of get_health_summary
Worker(pc, result) == [pc |-> pc, result |-> result]

\* workers without the i-th, which has ended
RemoveWorker(i) == SubSeq(workers, 1, i - 1) \o SubSeq(workers, i + 1, Len(workers))

\* refresh_data: a new thread runs fetch_data
RefreshDataCall ==
    /\ ui = "idle"
    /\ Len(workers) + pending_ui < MaxWorkers
    /\ workers' = Append(workers, Worker("call", NoneData))
    /\ status_label' = "Refreshing"
    /\ latest_running' = TRUE
    /\ latest_result' = NoneData
    /\ UNCHANGED <<current_data, pending_ui, ui, ui_data, shown, ui_seen, returned,
                   summaryVars, clockVars>>

\* setup_refresh_timer with n callbacks pending: the callbacks pending after it
SetupRefreshTimer(n) == IF auto_refresh THEN n + 1 ELSE n

\* enter_dashboard, after the sign-in: setup_ui, setup_refresh_timer and
\* refresh_data
EnterDashboard ==
    /\ ~dashboard
    /\ dashboard' = TRUE
    /\ refresh_timer' = SetupRefreshTimer(refresh_timer)
    /\ RefreshDataCall
    /\ UNCHANGED auto_refresh

\* refresh_data from the Refresh button
RefreshData ==
    /\ dashboard
    /\ RefreshDataCall
    /\ UNCHANGED timerVars

\* auto_refresh_data: the event loop runs a pending refresh callback
AutoRefreshData ==
    /\ dashboard
    /\ refresh_timer > 0
    /\ ui = "idle"
    /\ IF auto_refresh
       THEN /\ RefreshDataCall
            /\ refresh_timer' = SetupRefreshTimer(refresh_timer - 1)
       ELSE /\ refresh_timer' = refresh_timer - 1
            /\ UNCHANGED <<refreshVars, summaryVars, clockVars>>
    /\ UNCHANGED <<dashboard, auto_refresh>>

\* the "Enable automatic data refresh" checkbox of show_settings is clicked:
\* setattr(self, 'auto_refresh', refresh_var.get())
ToggleAutoRefresh ==
    /\ dashboard
    /\ ui = "idle"
    /\ auto_refresh' = ~auto_refresh
    /\ UNCHANGED <<dashboard, refresh_timer, refreshVars, summaryVars, clockVars>>

\* fetch_data: the call of self.data_manager.get_health_summary() returns
WorkerCall(i) ==
    /\ workers[i].pc = "call"
    /\ \E ds \in RecentHealthData :
          /\ data' = ds
          /\ summary' = HealthSummary(ds)
    /\ workers' = [workers EXCEPT ![i] = Worker("store", summary')]
    /\ returned' = returned \cup {summary'}
    /\ latest_result' = IF latest_running /\ i = Len(workers) THEN summary' ELSE latest_result
    /\ UNCHANGED <<cloud, entries, current_data, pending_ui, ui, ui_data, status_label, shown,
                   ui_seen, latest_running, timerVars, clockVars>>

\* mutant of Stored: the summary is stored before it is filled in, with its
\* status only
StoredUnfilled(result) == [status |-> result.status]

\* what "self.current_data = ..." stores: the summary the call has returned
Stored(result) == result

\* fetch_data: the store of "self.current_data = ..."
WorkerStore(i) ==
    /\ workers[i].pc = "store"
    /\ current_data' = Stored(workers[i].result)
    /\ workers' = [workers EXCEPT ![i] = Worker("after", workers[i].result)]
    /\ UNCHANGED <<pending_ui, ui, ui_data, status_label, shown, ui_seen, returned,
                   latest_running, latest_result, summaryVars, timerVars, clockVars>>

\* fetch_data: self.root.after(0, self.update_ui), and the thread ends
WorkerAfter(i) ==
    /\ workers[i].pc = "after"
    /\ pending_ui' = pending_ui + 1
    /\ workers' = RemoveWorker(i)
    /\ latest_running' = (latest_running /\ i # Len(workers))
    /\ UNCHANGED <<current_data, ui, ui_data, status_label, shown, ui_seen, returned,
                   latest_result, summaryVars, timerVars, clockVars>>

\* update_ui, up to the read of "not self.current_data"
UpdateUiNone ==
    /\ ui = "idle"
    /\ pending_ui > 0
    /\ pending_ui' = pending_ui - 1
    /\ ui_seen' = <<current_data>>
    /\ IF current_data = NoneData
       THEN /\ status_label' = "No Data Available"
            /\ ui' = "idle"
       ELSE /\ status_label' = status_label
            /\ ui' = "status"
    /\ UNCHANGED <<current_data, workers, ui_data, shown, returned, latest_running, latest_result, summaryVars, timerVars, clockVars>>

\* update_ui: the read of "self.current_data.get('status') != 'success'"
UpdateUiStatus ==
    /\ ui = "status"
    /\ ui_seen' = Append(ui_seen, current_data)
    /\ IF Get(current_data, "status", None) # "success"
       THEN /\ status_label' = "No Data Available"
            /\ ui' = "idle"
       ELSE /\ status_label' = status_label
            /\ ui' = "data"
    /\ UNCHANGED <<current_data, workers, pending_ui, ui_data, shown, returned,
                   latest_running, latest_result, summaryVars, timerVars, clockVars>>

\* the chip of one gauge of live_data
Chip(live_data, key) ==
    [name |-> key, value |-> Get(live_data[key], "value", None),
     status |-> Get(live_data[key], "status", "muted")]

\* the keys of live_data in the order of the dict
LiveKeys(live_data) ==
    SelectSeq(<<"postureScore", "focusScore", "noiseLevel", "phoneUsage">>,
              LAMBDA key : key \in DOMAIN live_data)

\* update_live_summary: a chip for each of the first max_chips gauges
UpdateLiveSummary(live_data) ==
    IF DOMAIN live_data = {} THEN <<[name |-> "No live data available", value |-> None,
                                     status |-> "muted"]>>
    ELSE LET keys == Take(LiveKeys(live_data), MaxChips)
         IN  [k \in 1..Len(keys) |-> Chip(live_data, keys[k])]

\* the empty dict
EmptyDict == [key \in {} |-> None]

\* update_ui from "data = self.current_data" on: the labels of the three
\* metrics, in tenths of a per cent, and the live summary (the progress bars,
\* drawn 100 ms later from the same numbers, are left out)
Render(d) ==
    LET metrics == Get(d, "metrics", EmptyDict)
        dist_pct == Get(metrics, "distraction_level", 280)
    IN  [distraction |-> 1000 - dist_pct,
         focus |-> Get(metrics, "focus_score", 640),
         posture |-> Get(metrics, "posture_score", 750),
         chips |-> UpdateLiveSummary(Get(d, "live_data", EmptyDict))]

\* update_ui: "data = self.current_data" and the rest
UpdateUiData ==
    /\ ui = "data"
    /\ ui_seen' = Append(ui_seen, current_data)
    /\ ui_data' = current_data
    /\ status_label' = "System Active"
    /\ shown' = Render(current_data)
    /\ ui' = "idle"
    /\ UNCHANGED <<current_data, workers, pending_ui, returned, latest_running, latest_result, summaryVars, timerVars, clockVars>>

\* the window of the log changes: entries are logged, or leave the last 24 hours
LogChange ==
    /\ \E w \in RefreshWindows \ {entries} : entries' = w
    /\ UNCHANGED <<cloud, data, summary, refreshVars, timerVars, clockVars>>

NextRefresh ==
    \/ EnterDashboard
    \/ RefreshData
    \/ AutoRefreshData
    \/ ToggleAutoRefresh
    \/ \E i \in 1..Len(workers) : WorkerCall(i)
    \/ \E i \in 1..Len(workers) : WorkerStore(i)
    \/ \E i \in 1..Len(workers) : WorkerAfter(i)
    \/ UpdateUiNone
    \/ UpdateUiStatus
    \/ UpdateUiData
    \/ LogChange

SpecRefresh == InitRefresh /\ [][NextRefresh]_vars

\* ------------------------------------------------------------------ claims

\* a start call with settings from the comboboxes' list
StartCall ==
    \E f \in BreakMinuteInputs \cap SupportedMinutes, l \in BreakMinuteInputs \cap SupportedMinutes :
        StartSession(f, l)

\* the settings of the session are from the comboboxes' list
SupportedSettings ==
    break_freq_minutes \in SupportedMinutes /\ break_len_minutes \in SupportedMinutes

\* the innermost open message box
TopBox == IF modal = <<>> THEN "none" ELSE modal[Len(modal)].box

\* C1: start_session called while a session is live (Running or Paused) is a
\* no-op: no Session or BreakSchedule field changes.  (Stated for settings
\* from the list, of the live session and of the call.)
C1_StartWhileLiveIsNoOp ==
    [][(session_running /\ SupportedSettings /\ StartCall) => UNCHANGED sessionVars]_vars

\* C2: the elapsed time a live session has reached, the value every tick
\* displays and the final value stop leaves all equal the clock time since
\* the start spent running and not paused.
C2_ElapsedIsRunningTime ==
    /\ [](session_running =>
            CurrentElapsed(session_running, session_paused,
                           session_elapsed, session_start_time) = run_time)
    /\ [][((\E i \in 1..Len(timers) : Tick(i)) /\ session_running)
            => timer_label' = FormatTimer(run_time')]_vars
    /\ [][(session_running /\ ~session_running') => session_elapsed' = run_time']_vars

\* C2 witness: a session paused and resumed, running again, whose last tick
\* shows the running time, which is less than the clock time
C2_Witness ==
    /\ session_running /\ ~session_paused
    /\ session_elapsed > 0
    /\ now > session_start_time
    /\ run_time < now
    /\ timer_label = FormatTimer(run_time)

\* C3: in a break, break_end_time is present and next_break_time is absent.
\* (Stated for settings from the list.)
C3_InBreakNoNextBreak ==
    (in_break /\ SupportedSettings) => (break_end_time # None /\ next_break_time = None)

\* C4: while a session is live and not in a break, next_break_time is present.
C4_NextBreakScheduled ==
    (session_running /\ ~in_break) => next_break_time # None

\* C4 witness: a live session whose first break has ended, the next one scheduled
C4_Witness ==
    session_running /\ ~in_break /\ breaks_done > 0 /\ next_break_time > now

\* C5: a break is entered only after break_frequency of un-paused running
\* time since the start or the end of the previous break, and ends only after
\* break_length of un-paused running time.  (Stated for settings from the list.)
C5_PauseFreezesBreakCountdown ==
    [][SupportedSettings =>
         /\ ((~in_break) /\ in_break') => active_since >= Minutes(break_freq_minutes)
         /\ (breaks_done' > breaks_done) => active_since >= Minutes(break_len_minutes)]_vars

\* C6: a session never paused and ticked on time enters its first break f
\* after the start, leaves it at f + l and then schedules the next break at
\* 2f + l after the start.
C6_SteadyBreakTimes ==
    (steady /\ session_running) =>
        LET s == session_start_time
            f == Minutes(break_freq_minutes)
            l == Minutes(break_len_minutes)
        IN  /\ (breaks_done = 0 /\ ~in_break) => (next_break_time = s + f /\ now <= s + f)
            /\ (breaks_done = 0 /\ in_break) =>
                   (break_end_time = s + f + l /\ now >= s + f /\ now <= s + f + l)
            /\ (breaks_done = 1 /\ ~in_break) =>
                   (next_break_time = s + f + f + l /\ now >= s + f + l)

\* C6 witness: f = l = 5 minutes, minute 12 of the session: the first break
\* was left at minute 10 and the next is scheduled for minute 15
C6_Witness ==
    /\ steady /\ session_running
    /\ break_freq_minutes = 5 /\ break_len_minutes = 5
    /\ now = session_start_time + Minutes(12)
    /\ breaks_done = 1 /\ ~in_break
    /\ next_break_time = session_start_time + Minutes(15)

\* C7: pause_session and stop_session called while Idle change nothing: no
\* field, no pending tick, no message box, no recorded session.
C7_IdleCallsIgnored ==
    [][((PauseSession \/ StopSession) /\ ~session_running) => UNCHANGED <<now, progVars>>]_vars

\* C7 witness: a call has just been ignored, after an earlier session was stopped
C7_Witness ==
    ignored /\ ~session_running /\ session_start_time # None

\* C8: a start call with a break frequency or length outside the supported
\* set changes no Session or BreakSchedule field.
C8_UnsupportedStartRejected ==
    [][(\E f \in BreakMinuteInputs, l \in BreakMinuteInputs :
            /\ (f \notin SupportedMinutes \/ l \notin SupportedMinutes)
            /\ StartSession(f, l))
        => UNCHANGED sessionVars]_vars

\* C9 as stated: in_break is true only while the session is Running, never
\* while it is Paused or Idle.  (Stated for settings from the list.)
C9_OnBreakOnlyWhileRunning ==
    (in_break /\ SupportedSettings) => (session_running /\ ~session_paused)

\* C9 amended: in_break is true only while a session is live (Running or
\* Paused), never while Idle.
C9_OnBreakOnlyWhileLive ==
    in_break => session_running

\* C9 witness: a session paused during a break
C9_Witness ==
    in_break /\ session_running /\ session_paused

\* C10: stop_session from Running or Paused leaves the session Idle with the
\* break schedule cleared; the final elapsed is session_elapsed plus the time
\* since session_start_time from Running, session_elapsed itself from Paused.
C10_StopFinalizes ==
    [][(StopSession /\ session_running) =>
          /\ ~session_running' /\ ~session_paused'
          /\ ~in_break' /\ next_break_time' = None /\ break_end_time' = None
          /\ session_elapsed' = IF session_paused THEN session_elapsed
                                ELSE session_elapsed + (now - session_start_time)]_vars

\* C10 witness: a session of positive length has been stopped and
\* stop_session is blocked in the box that reports the result
C10_Witness ==
    /\ ~session_running /\ ~in_break
    /\ TopBox \in {"session_complete", "session_too_short"}
    /\ session_elapsed > 0

\* C11: start_session from Idle at time now leaves session_elapsed = 0,
\* session_start_time = now, running, not paused, not in a break,
\* break_end_time absent and next_break_time = now + break frequency.
C11_StartFromIdle ==
    [][\A f \in BreakMinuteInputs, l \in BreakMinuteInputs :
         ((~session_running) /\ StartSession(f, l)) =>
            /\ session_elapsed' = 0
            /\ session_start_time' = now
            /\ session_running' /\ ~session_paused'
            /\ ~in_break' /\ break_end_time' = None
            /\ next_break_time' = now + Minutes(f)]_vars

\* C11 witness: a session just started, after an earlier one, with a single
\* tick pending: the start found no session live
C11_Witness ==
    /\ session_running /\ ~session_paused
    /\ now > 0 /\ session_start_time = now /\ session_elapsed = 0
    /\ ~in_break /\ break_end_time = None
    /\ next_break_time = now + Minutes(break_freq_minutes)
    /\ Len(timers) = 1 /\ modal = <<>>

\* a summary has been returned
Returned == summary # NoneData

\* the aggregate fields of a summary
AggregateFields ==
    {"data_points", "averages", "totals", "trends", "top_recommendations",
     "health_grade", "live_data", "metrics"}

\* C12: the summary of an empty window has status no_data and none of the
\* aggregate fields.
C12_EmptyGivesNoData ==
    (Returned /\ data = <<>>) =>
        (summary.status = "no_data" /\ DOMAIN summary \cap AggregateFields = {})

\* C12 witness: the log answered with no entries and the summary is no_data
C12_Witness ==
    cloud = "up" /\ entries = <<>> /\ Returned /\ summary.status = "no_data"

\* C13: when the log service is unreachable or the fetch fails, the summary
\* has status no_data.
C13_FetchFailureGivesNoData ==
    (Returned /\ cloud # "up") => summary.status = "no_data"

\* the sum of a field over the entries lo..hi of data
RECURSIVE FieldSum(_, _, _)
FieldSum(field, lo, hi) ==
    IF lo > hi THEN 0 ELSE data[lo][field] + FieldSum(field, lo + 1, hi)

\* C14: for a window of n > 6 samples the trend is improving if the mean
\* focus of the newest n \div 3 samples is greater than the mean focus of the
\* others, declining if it is smaller, stable if they are equal.
C14_TrendByThirds ==
    (Returned /\ Len(data) > 6) =>
        LET n == Len(data)
            r == n \div 3
            recent == FieldSum("focus_score", 1, r)
            older == FieldSum("focus_score", r + 1, n)
        IN  /\ summary.status = "success"
            /\ summary.trends.focus_trend =
                  IF recent * (n - r) > older * r THEN "improving"
                  ELSE IF recent * (n - r) < older * r THEN "declining"
                  ELSE "stable"

\* C14 witness: 20 samples, the newest 6 of mean focus 0.7, the other 14 of
\* mean focus 0.5, the trend improving
C14_Witness ==
    /\ Returned /\ Len(data) = 20
    /\ FieldSum("focus_score", 1, 6) = 6 * 700
    /\ FieldSum("focus_score", 7, 20) = 14 * 500
    /\ summary.trends.focus_trend = "improving"

\* the places <<entry, position>> where rec occurs in data
Occurrences(rec) ==
    { pl \in UNION { { <<i, j>> : j \in 1..Len(data[i].recommendations) } : i \in 1..Len(data) } :
        data[pl[1]].recommendations[pl[2]] = rec }

\* the recommendations that occur in data
Recommended ==
    UNION { { data[i].recommendations[j] : j \in 1..Len(data[i].recommendations) } :
            i \in 1..Len(data) }

\* place p comes before place q in the window
Before(p, q) == p[1] < q[1] \/ (p[1] = q[1] /\ p[2] < q[2])

\* rec is seen before other in the window
SeenFirst(rec, other) ==
    \E p \in Occurrences(rec) : \A q \in Occurrences(other) : Before(p, q)

\* C15: top_recommendations has at most 5 entries, each with the number of
\* occurrences of its text in the window, in non-increasing order of count,
\* equal counts in first-seen order, and no omitted recommendation has a
\* higher count than an included one.
C15_TopRecommendations ==
    (Returned /\ data # <<>>) =>
        LET top == summary.top_recommendations
        IN  /\ Len(top) <= 5
            /\ \A k \in 1..Len(top) : top[k].count = Cardinality(Occurrences(top[k].text))
            /\ \A k \in 1..Len(top) : top[k].count > 0
            /\ \A k \in 1..Len(top), m \in 1..Len(top) :
                  k < m => /\ top[k].count >= top[m].count
                           /\ top[k].text # top[m].text
                           /\ top[k].count = top[m].count => SeenFirst(top[k].text, top[m].text)
            /\ \A rec \in Recommended \ { top[k].text : k \in 1..Len(top) } :
                  \A k \in 1..Len(top) : Cardinality(Occurrences(rec)) <= top[k].count

\* C15 witness: six recommendations in the window, five of them listed, the
\* first with a higher count than the second, the others tied
C15_Witness ==
    /\ Returned /\ data # <<>>
    /\ Cardinality(Recommended) = 6
    /\ Len(summary.top_recommendations) = 5
    /\ summary.top_recommendations[1].count > summary.top_recommendations[2].count
    /\ summary.top_recommendations[2].count = summary.top_recommendations[5].count

\* twice overall, as a fraction over 3000 * n: (focus * 100 + posture * 100
\* - min(phone / 300 * 20, 20) - noise * 30) over the whole window
TwiceOverallNum ==
    LET n == Len(data)
        phone == FieldSum("phone_usage_seconds", 1, n)
    IN  300 * FieldSum("focus_score", 1, n) + 300 * FieldSum("posture_score", 1, n)
          - 2 * (IF phone < 30000 THEN phone ELSE 30000) * n
          - 90 * FieldSum("noise_level", 1, n)

\* overall >= g, overall < g
OverallAtLeast(g) == TwiceOverallNum >= 2 * g * 3000 * Len(data)
OverallBelow(g) == TwiceOverallNum < 2 * g * 3000 * Len(data)

\* C16: health_grade is A for overall >= 85, B for 75 <= overall < 85, C for
\* 65 <= overall < 75, D for 55 <= overall < 65 and F for overall < 55.
C16_GradeBands ==
    (Returned /\ data # <<>>) =>
        /\ OverallAtLeast(85) => summary.health_grade = "A"
        /\ (OverallAtLeast(75) /\ OverallBelow(85)) => summary.health_grade = "B"
        /\ (OverallAtLeast(65) /\ OverallBelow(75)) => summary.health_grade = "C"
        /\ (OverallAtLeast(55) /\ OverallBelow(65)) => summary.health_grade = "D"
        /\ OverallBelow(55) => summary.health_grade = "F"

\* C16 witness: overall is exactly 85 and the grade is A
C16_Witness ==
    /\ Returned /\ data # <<>>
    /\ TwiceOverallNum = 2 * 85 * 3000 * Len(data)
    /\ summary.health_grade = "A"

\* the number of samples of the live metrics
LiveLen == IF Len(data) < 5 THEN Len(data) ELSE 5

\* the status of a score whose sum over the LiveLen newest samples is sum
StrictScoreStatus(sum) ==
    IF sum > 700 * LiveLen THEN "good" ELSE IF sum > 400 * LiveLen THEN "warn" ELSE "bad"

\* C17: posture and focus are good for a mean > 0.7, warn for a mean > 0.4,
\* else bad; noise is good for a mean < 0.3, warn for a mean < 0.6, else bad;
\* phone usage is good below 300 s, warn below 900 s, else bad.
C17_LiveStatusThresholds ==
    (Returned /\ data # <<>>) =>
        LET live == summary.live_data
            noise == FieldSum("noise_level", 1, LiveLen)
            phone == FieldSum("phone_usage_seconds", 1, LiveLen)
        IN  /\ live.postureScore.status = StrictScoreStatus(FieldSum("posture_score", 1, LiveLen))
            /\ live.focusScore.status = StrictScoreStatus(FieldSum("focus_score", 1, LiveLen))
            /\ live.noiseLevel.status =
                  IF noise < 300 * LiveLen THEN "good"
                  ELSE IF noise < 600 * LiveLen THEN "warn" ELSE "bad"
            /\ live.phoneUsage.status =
                  IF phone < 30000 THEN "good" ELSE IF phone < 90000 THEN "warn" ELSE "bad"

\* C17 witness: a posture mean of exactly 0.7 and a noise mean of exactly 0.3
\* are warn, a focus mean of exactly 0.4 is bad, 300 s of phone usage are warn
C17_Witness ==
    /\ Returned /\ data # <<>>
    /\ FieldSum("posture_score", 1, LiveLen) = 700 * LiveLen
    /\ FieldSum("noise_level", 1, LiveLen) = 300 * LiveLen
    /\ FieldSum("focus_score", 1, LiveLen) = 400 * LiveLen
    /\ FieldSum("phone_usage_seconds", 1, LiveLen) = 30000
    /\ summary.live_data.postureScore.status = "warn"
    /\ summary.live_data.noiseLevel.status = "warn"
    /\ summary.live_data.focusScore.status = "bad"
    /\ summary.live_data.phoneUsage.status = "warn"

\* C18: live_data depends on the 5 newest samples only: the window with any
\* older sample replaced, with the oldest of more than 5 dropped or (from 5
\* samples on) with one more appended has the same live_data.
C18_LiveDataOfNewestFive ==
    (Returned /\ data # <<>>) =>
        /\ \A i \in 6..Len(data), s \in LongSamples :
              GenerateLiveDataFromRecent([data EXCEPT ![i] = s]) = summary.live_data
        /\ Len(data) > 5 =>
              GenerateLiveDataFromRecent(SubSeq(data, 1, Len(data) - 1)) = summary.live_data
        /\ Len(data) >= 5 =>
              \A s \in LongSamples :
                  GenerateLiveDataFromRecent(Append(data, s)) = summary.live_data

\* C18 witness: a window of more than 5 samples whose older samples differ
\* from the newest ones in every score
C18_Witness ==
    /\ Returned /\ Len(data) > 6
    /\ \A field \in {"focus_score", "posture_score", "noise_level", "phone_usage_seconds"} :
          data[6][field] # data[1][field]
    /\ summary.live_data.postureScore.status = "good"

\* C19 as stated: data_points is the number of samples, the averages are the
\* means of focus, posture and noise over the window, the phone total is the
\* sum over the window.
C19_ExactMeans ==
    (Returned /\ data # <<>>) =>
        LET n == Len(data)
        IN  /\ summary.data_points = n
            /\ summary.averages.focus_score * n = FieldSum("focus_score", 1, n)
            /\ summary.averages.posture_score * n = FieldSum("posture_score", 1, n)
            /\ summary.averages.noise_level * n = FieldSum("noise_level", 1, n)
            /\ summary.totals.phone_usage_seconds * 10 = FieldSum("phone_usage_seconds", 1, n)

\* reported, in units of 1 / scale, is num / den to the nearest unit
Nearest(reported, num, den) ==
    LET diff == reported * den - num
    IN  2 * (IF diff < 0 THEN 0 - diff ELSE diff) <= den

\* C19 amended: data_points is the number of samples, the averages are the
\* means over the window to the nearest thousandth, the phone total is the sum
\* over the window to the nearest tenth of a second; no value is clamped.
C19_RoundedMeans ==
    (Returned /\ data # <<>>) =>
        LET n == Len(data)
        IN  /\ summary.data_points = n
            /\ Nearest(summary.averages.focus_score, FieldSum("focus_score", 1, n), n)
            /\ Nearest(summary.averages.posture_score, FieldSum("posture_score", 1, n), n)
            /\ Nearest(summary.averages.noise_level, FieldSum("noise_level", 1, n), n)
            /\ Nearest(summary.totals.phone_usage_seconds,
                       FieldSum("phone_usage_seconds", 1, n), 10)

\* C19 witness: a window with values out of range whose mean focus is above
\* 1.0 and no whole number of thousandths
C19_Witness ==
    /\ Returned /\ data # <<>>
    /\ \E i \in 1..Len(data) : data[i].posture_score < 0
    /\ FieldSum("focus_score", 1, Len(data)) % Len(data) # 0
    /\ summary.averages.focus_score > 1000

\* C20: the presentation layer only ever observes a complete summary, the
\* previous or the new one: every value update_ui reads from
\* self.current_data, and the one it renders, is None or a summary as
\* get_health_summary returned it, and what is shown is rendered from one
\* such summary.
C20_AtomicHandOver ==
    /\ current_data \in returned \cup {NoneData}
    /\ \A k \in 1..Len(ui_seen) : ui_seen[k] \in returned \cup {NoneData}
    /\ ui_data \in returned \cup {NoneData}
    /\ shown # NothingShown => \E d \in returned : shown = Render(d)

\* C20 witness: update_ui has rendered a summary, a worker has stored a
\* newer one and another worker holds a third not yet stored
C20_Witness ==
    /\ shown # NothingShown
    /\ ui_data \in returned /\ current_data \in returned
    /\ current_data # ui_data
    /\ \E i \in 1..Len(workers) :
          workers[i].pc = "store" /\ workers[i].result \notin {current_data, ui_data}

\* an update_timer callback is run by the event loop
TickStep == \E i \in 1..Len(timers) : Tick(i)

\* an update_timer call is blocked in its "Break complete" box
TickBlocked == \E k \in 1..Len(modal) : modal[k].box = "break_complete"

\* C21: no tick begins while another tick has not finished, the time a tick
\* is blocked in its "Break complete" box included.  (Stated for settings
\* from the list.)
C21_TicksSequential ==
    [][(SupportedSettings /\ TickStep) => ~TickBlocked]_vars

\* C22: a tick raises at most one "Break complete" box and never both enters
\* and leaves a break; it raises the box exactly when it runs while Running
\* and not Paused, in a break, with now >= break_end_time, and then clears
\* in_break and break_end_time and sets next_break_time = now + frequency; a
\* tick that enters a break sets break_end_time = now + length.
C22_TickBreakSteps ==
    [][TickStep =>
         LET raised == Len(modal') - Len(modal)
             due == /\ session_running /\ ~session_paused
                    /\ in_break /\ break_end_time # None /\ now >= break_end_time
         IN  /\ raised \in {0, 1}
             /\ (raised = 1) <=> due
             /\ (raised = 1) =>
                   /\ modal' = Append(modal, Box("break_complete", 0))
                   /\ ~in_break' /\ break_end_time' = None
                   /\ next_break_time' = now + Minutes(break_freq_minutes)
             /\ ((~in_break) /\ in_break') =>
                   /\ break_end_time' = now + Minutes(break_len_minutes)
                   /\ session_running /\ ~session_paused
                   /\ next_break_time # None /\ now >= next_break_time
             /\ (~in_break) => raised = 0]_vars

\* C22 witness: a tick of a session never paused has just left the break and
\* is blocked in the box
C22_Witness ==
    /\ steady /\ session_running /\ ~session_paused
    /\ TopBox = "break_complete"
    /\ ~in_break /\ break_end_time = None
    /\ next_break_time = now + Minutes(break_freq_minutes)

\* C23: a tick while Paused shows session_elapsed and leaves in_break,
\* next_break_time, break_end_time, session_elapsed and session_start_time
\* unchanged; a tick while Running and not Paused shows session_elapsed +
\* (now - session_start_time) and changes neither session_elapsed nor
\* session_start_time.
C23_TickWhilePaused ==
    [][TickStep =>
         /\ (session_running /\ session_paused) =>
               /\ timer_label' = FormatTimer(session_elapsed)
               /\ UNCHANGED <<in_break, next_break_time, break_end_time,
                              session_elapsed, session_start_time>>
         /\ (session_running /\ ~session_paused) =>
               /\ timer_label' = FormatTimer(session_elapsed + (now - session_start_time))
               /\ UNCHANGED <<session_elapsed, session_start_time>>]_vars

\* C23 witness: a session paused before now with a break due since, which a
\* tick at now has not entered; the label shows the banked time, not the time
\* since the start
C23_Witness ==
    /\ session_running /\ session_paused
    /\ session_start_time + session_elapsed < now
    /\ \E i \in 1..Len(timers) : timers[i] = now + TickPeriod
    /\ ~in_break /\ next_break_time # None /\ now >= next_break_time
    /\ timer_label = FormatTimer(session_elapsed)
    /\ timer_label # FormatTimer(session_elapsed + (now - session_start_time))

\* C24: for a window of 1 to 6 samples both trend subsets are the whole
\* window: the trend is stable and recent_focus and older_focus are equal, both
\* the average focus of the window, whatever the focus scores.
C24_ShortWindowStable ==
    (Returned /\ Len(data) \in 1..6) =>
        /\ summary.trends.focus_trend = "stable"
        /\ summary.trends.recent_focus = summary.trends.older_focus
        /\ summary.trends.older_focus = summary.averages.focus_score
        /\ Nearest(summary.trends.recent_focus,
                   FieldSum("focus_score", 1, Len(data)), Len(data))

\* C24 witness: six samples, the newest two of a higher focus than the others
C24_Witness ==
    /\ Returned /\ Len(data) = 6
    /\ FieldSum("focus_score", 1, 2) * 4 > FieldSum("focus_score", 3, 6) * 2
    /\ summary.trends.focus_trend = "stable"
    /\ summary.trends.recent_focus = summary.trends.older_focus

\* C25: for a non-empty window of n samples neither trend subset is empty, so
\* no mean divides by zero and the fall-back to the average of the window is
\* not taken; for n > 6 the recent subset is the newest n \div 3 samples and
\* the older subset the others: disjoint, and together the window.
C25_SubsetsNonEmpty ==
    (Returned /\ data # <<>>) =>
        LET n == Len(data)
            r == n \div 3
        IN  /\ RecentData(data) # <<>> /\ OlderData(data) # <<>>
            /\ summary.status = "success"
            /\ (n > 6) =>
                  /\ 1 <= r /\ r < n
                  /\ RecentData(data) = SubSeq(data, 1, r)
                  /\ OlderData(data) = SubSeq(data, r + 1, n)
                  /\ Nearest(summary.trends.recent_focus, FieldSum("focus_score", 1, r), r)
                  /\ Nearest(summary.trends.older_focus, FieldSum("focus_score", r + 1, n), n - r)

\* C25 witness: seven samples, the smallest window that is split, in subsets
\* of 2 and 5 samples with different means
C25_Witness ==
    /\ Returned /\ Len(data) = 7
    /\ Len(RecentData(data)) = 2 /\ Len(OlderData(data)) = 5
    /\ summary.trends.recent_focus # summary.trends.older_focus
    /\ summary.trends.recent_focus # summary.averages.focus_score

\* stop_session is called on a live session
StopCall == session_running /\ StopSession

\* C26: on stop the session is reported saved, and the minutes-today badge
\* updated with its minutes, if and only if the final elapsed time that
\* stop_session computes is at least 60 seconds; a shorter session is reported
\* too short and the badge is left as it was.
C26_SavedIffOneMinute ==
    [][/\ StopCall =>
            /\ TopBox' = IF session_elapsed' >= Minutes(1)
                         THEN "session_complete" ELSE "session_too_short"
            /\ modal'[Len(modal')].minutes = session_elapsed' \div UnitsPerMinute
            /\ today_badge' = today_badge
       /\ (today_badge' # today_badge) =>
            /\ TopBox = "session_complete" /\ Dismiss
            /\ today_badge' >= 1
       /\ (Dismiss /\ TopBox = "session_complete") =>
            today_badge' = modal[Len(modal)].minutes
       /\ (Dismiss /\ TopBox = "session_too_short") =>
            today_badge' = today_badge]_vars

\* C26 witness: after a saved session, a session of less than a minute has
\* been stopped and is reported too short
C26_Witness ==
    /\ today_badge >= 1
    /\ TopBox = "session_too_short"
    /\ ~session_running
    /\ 0 < session_elapsed /\ session_elapsed < Minutes(1)

\* C28: at most one update_timer callback is pending at any moment.  (Stated
\* for settings from the list.)
C28_OneTickPending == SupportedSettings => Len(timers) <= 1

\* C30: while no session is live the timer shows 00:00: no tick after the
\* stop changes the display.  (Stated for settings from the list.)
C30_DisplayStaysZero ==
    (SupportedSettings /\ ~session_running) => timer_label = <<0, 0>>

\* the sessions with the shortest setting of the list
NextChain ==
    \/ StartCall
    \/ PauseSession
    \/ StopSession
    \/ TickStep
    \/ Dismiss
    \/ Advance

\* the event loop runs a callback that is due, in a message box too, and time
\* passes
SpecChain ==
    /\ Init /\ [][NextChain]_vars
    /\ WF_vars(TickStep)
    /\ WF_vars(Advance)

\* a tick of a stopped session removes its callback and schedules none
IdleTickEndsChain ==
    [][(TickStep /\ ~session_running) =>
         /\ Len(timers') = Len(timers) - 1
         /\ modal' = modal]_vars

\* no callback is scheduled while no session is live
IdleSchedulesNone ==
    [][(~session_running /\ ~session_running') => Len(timers') <= Len(timers)]_vars

\* a live session has a tick pending or blocked in its message box
LiveTickPending ==
    [](session_running => (timers # <<>> \/ TickBlocked))

\* every pending callback is due before the end of the clock of the model
DueInTime == \A i \in 1..Len(timers) : timers[i] <= MaxTime

\* C29: after a stop, a pending tick fires once more without rescheduling
\* itself, and unless a session is started no tick callback is pending in the
\* end; while a session is Running or Paused a tick is pending or executing.
C29_TickChainEnds ==
    /\ IdleTickEndsChain
    /\ IdleSchedulesNone
    /\ LiveTickPending
    /\ (~session_running /\ DueInTime) ~> (session_running \/ timers = <<>>)

\* C29 witness: a session has been stopped, its box is closed, one callback
\* of its chain has fired since and shown the elapsed time, and the last one
\* is still pending
C29_Witness ==
    /\ ~session_running /\ modal = <<>>
    /\ session_elapsed > 0
    /\ Len(timers) = 1 /\ DueInTime
    /\ timer_label # <<0, 0>>

\* C27: on the dashboard, whenever auto_refresh is enabled a refresh callback
\* is pending, after auto refresh has been disabled and enabled again too.
C27_RefreshTimerPending == (dashboard /\ auto_refresh) => refresh_timer > 0

\* every refresh has completed: no thread is left, no update_ui is queued or
\* running
RefreshesDone == workers = <<>> /\ pending_ui = 0 /\ ui = "idle"

\* C31: once every refresh in flight has completed, the summary held is the
\* result of the refresh started last: an earlier, slower refresh does not
\* overwrite the result of a later one.
C31_LatestRefreshWins ==
    (RefreshesDone /\ latest_result # NoneData) => current_data = latest_result

\* C32: the summary update_ui renders is the one whose status it has checked,
\* and its status is success: a no_data summary is never rendered as metric
\* values.
C32_RendersCheckedSummary ==
    /\ Len(ui_seen) = 3 => ui_seen[3] = ui_seen[2]
    /\ ui_data # NoneData => ui_data.status = "success"

\* a "Break complete" box is opened in this step
BreakCompletedRaised ==
    /\ Len(modal') = Len(modal) + 1
    /\ modal'[Len(modal')].box = "break_complete"

\* C33: a stop during a break clears the break and raises no "Break
\* complete"; the box is raised only by a tick, never by stop, pause, resume
\* or start, and never on a session that is Idle or Paused.  (Stated for
\* settings from the list.)
C33_OnlyTickRaises ==
    [][SupportedSettings =>
         /\ (StopCall /\ in_break) => (~in_break' /\ ~BreakCompletedRaised)
         /\ BreakCompletedRaised =>
               (TickStep /\ session_running /\ ~session_paused)]_vars

\* the session fields and the display right after the first start_session(f, l)
\* of the program, at time t
FirstStart(f, l, t) ==
    <<<<TRUE, FALSE, t, 0, f, l, FALSE, t + Minutes(f), None>>, <<0, 0>>>>

\* the session is as start_session has just left it
JustStarted ==
    <<sessionVars, timer_label>> = FirstStart(break_freq_minutes, break_len_minutes, now)

GradeRank(g) ==
    CASE g = "A" -> 4 [] g = "B" -> 3 [] g = "C" -> 2 [] g = "D" -> 1 [] OTHER -> 0

\* the steps an average is raised by, in thousandths, and the total phone
\* time, in hundredths of a second
ScoreSteps == {1, 50, 200, 1000}
PhoneSteps == {1, 1000, 30000}

\* the mean raised by k thousandths
Raised(mean, k) == [num |-> mean.num + k * mean.den, den |-> mean.den]

\* 300 seconds, in hundredths
PhoneCap == 30000

\* C35: with the other inputs fixed, a higher average focus or posture never
\* gives a lower grade, a higher phone total or average noise never gives a
\* higher grade, and every phone total of 300 seconds or more gives the grade
\* of exactly 300 seconds.
C35_GradeMonotone ==
    (Returned /\ data # <<>>) =>
        LET focus == Mean(data, "focus_score")
            posture == Mean(data, "posture_score")
            phone == Total(data, "phone_usage_seconds")
            noise == Mean(data, "noise_level")
            grade == GradeRank(summary.health_grade)
        IN  /\ \A k \in ScoreSteps :
                 /\ GradeRank(CalculateHealthGrade(Raised(focus, k), posture, phone, noise)) >= grade
                 /\ GradeRank(CalculateHealthGrade(focus, Raised(posture, k), phone, noise)) >= grade
                 /\ GradeRank(CalculateHealthGrade(focus, posture, phone, Raised(noise, k))) <= grade
            /\ \A k \in PhoneSteps :
                 /\ GradeRank(CalculateHealthGrade(focus, posture, phone + k, noise)) <= grade
                 /\ GradeRank(CalculateHealthGrade(focus, posture, PhoneCap + k, noise))
                       = GradeRank(CalculateHealthGrade(focus, posture, PhoneCap, noise))
            /\ (phone >= PhoneCap) =>
                 grade = GradeRank(CalculateHealthGrade(focus, posture, PhoneCap, noise))

\* C35 witness: a window with more than 300 seconds of phone usage whose grade
\* is the one of 300 seconds, is lower than the one without phone usage and
\* rises with the focus
C35_Witness ==
    /\ Returned /\ data # <<>>
    /\ Total(data, "phone_usage_seconds") > PhoneCap
    /\ LET focus == Mean(data, "focus_score")
           posture == Mean(data, "posture_score")
           noise == Mean(data, "noise_level")
       IN  /\ summary.health_grade = CalculateHealthGrade(focus, posture, PhoneCap, noise)
           /\ GradeRank(CalculateHealthGrade(focus, posture, 0, noise))
                 > GradeRank(summary.health_grade)
           /\ GradeRank(CalculateHealthGrade(Raised(focus, 200), posture,
                                             Total(data, "phone_usage_seconds"), noise))
                 > GradeRank(summary.health_grade)

\* C36 as stated: the trend is improving exactly when the reported
\* recent_focus is greater than the reported older_focus, declining exactly
\* when it is smaller, stable exactly when they are equal.
C36_TrendOfReportedValues ==
    (Returned /\ data # <<>>) =>
        LET t == summary.trends
        IN  /\ t.focus_trend = "improving" <=> t.recent_focus > t.older_focus
            /\ t.focus_trend = "declining" <=> t.recent_focus < t.older_focus
            /\ t.focus_trend = "stable" <=> t.recent_focus = t.older_focus

\* C36 amended: the trend compares the means before they are rounded, so it
\* never contradicts the reported values: it is improving when the reported
\* recent_focus is greater, declining when it is smaller, and when the two
\* are reported equal it is stable exactly if the means themselves are equal.
C36_TrendOfExactMeans ==
    (Returned /\ data # <<>>) =>
        LET t == summary.trends
            n == Len(data)
            r == IF n > 6 THEN n \div 3 ELSE n
            recent == [num |-> FieldSum("focus_score", 1, r), den |-> r]
            older == [num |-> FieldSum("focus_score", IF n > 6 THEN r + 1 ELSE 1, n),
                      den |-> IF n > 6 THEN n - r ELSE n]
        IN  /\ t.recent_focus > t.older_focus => t.focus_trend = "improving"
            /\ t.recent_focus < t.older_focus => t.focus_trend = "declining"
            /\ t.focus_trend = "improving" => t.recent_focus >= t.older_focus
            /\ t.focus_trend = "declining" => t.recent_focus <= t.older_focus
            /\ t.focus_trend = "stable" <=>
                  recent.num * older.den = older.num * recent.den
            /\ t.focus_trend = "stable" => t.recent_focus = t.older_focus

\* C36 witness: the older samples have the higher mean focus, by less than
\* the rounding shows: the trend is declining and the reported values are equal
C36_Witness ==
    /\ Returned /\ Len(data) > 6
    /\ summary.trends.focus_trend = "declining"
    /\ summary.trends.recent_focus = summary.trends.older_focus

\* the four gauges of live_data
GaugeNames == {"postureScore", "focusScore", "noiseLevel", "phoneUsage"}

\* d is a success summary with exactly the four gauges, each good, warn or bad
FourGauges(d) ==
    /\ DOMAIN d.live_data = GaugeNames
    /\ \A key \in GaugeNames : d.live_data[key].status \in {"good", "warn", "bad"}

\* C37: every success summary carries exactly the four gauges, each with a
\* status good, warn or bad, and the presenter shows a chip for each of the
\* four gauges of the summary it has rendered.
C37_FourGaugesShown ==
    /\ \A d \in returned : d.status = "success" => FourGauges(d)
    /\ (ui_data # NoneData /\ ui_data.status = "success") =>
          \A key \in GaugeNames :
              \E k \in 1..Len(shown.chips) : shown.chips[k].name = key
====
